---- MODULE Spec2Model ----
(***************************************************************************)
(* GpsAlert: the geofence alarm logic of src/app/index.js.                 *)
(*                                                                         *)
(* The persisted zone collection (AsyncStorage key @gps_alarms), the       *)
(* in-memory React list `alarms`, the last known `location`, and the       *)
(* asynchronous handlers that read and write them: the foreground position *)
(* watcher, the background location task, the UI handlers (saveAlarm,      *)
(* toggleAlarm, deleteAlarm) and the notification-response listener        *)
(* (stopAlarmAndRefresh, snoozeAlarm).  Every handler is cut at its awaits:*)
(* the code between two awaits runs atomically on the JS thread, and the   *)
(* store executes getItem/setItem in the order they were issued.           *)
(*                                                                         *)
(* The alarm sound is the one Audio.Sound object, loaded and playing or    *)
(* unloaded.  A checkAlarms call may have its getItem, its setItem, its    *)
(* playAlarmSound or its notification fail.  The checkAlarms of the        *)
(* earliest revision kept in src/unnamed/part_000 is modelled next to the  *)
(* current one, with the two actions of its notification listener.         *)
(*                                                                         *)
(* The 3-second GPS status poll (startGpsStatusCheck) runs against the     *)
(* location services being switched on and off.  The revision kept in      *)
(* src/unnamed/part_001 adds sticky notifications, re-shown by a 5-second  *)
(* refresh timer and dismissed by stop and toggle-off.                     *)
(*                                                                         *)
(* Units.  Times are milliseconds.  Radii and distances are metres.        *)
(* Coordinates lie on one meridian (longitude Lon0); a latitude k stands   *)
(* for the point k * GridM metres of arc north of the reference parallel.  *)
(***************************************************************************)
EXTENDS Integers, Sequences, FiniteSets, TLC

VARIABLES
    store,      \* AsyncStorage value under STORAGE_KEY: [has, zs]
    alarms,     \* React state `alarms`
    location,   \* React state `location` (latitude of coords, or NoLoc)
    now,        \* Date.now()
    pc,         \* position of each asynchronous handler
    snap,       \* value each handler got from its last getItem / computed list
    ploc,       \* currentLoc argument of the handler's checkAlarms call
    arg,        \* alarmId of the notification response being handled
    soundObject, \* the Audio.Sound of the alarm: "unloaded" or "playing"
    tray,       \* alarmIds of the notifications delivered so far
    epi,        \* alerts emitted per zone id since the last user reset of it
    ops,        \* handlers started so far
    target,     \* id of the zone whose handler awaits its instant check
    servicesEnabled, \* whether the device's location services are on
    hasStarted, \* whether the LOCATION_TASK_NAME updates are running
    hasShownGpsWarning, \* the ref of that name
    gpsEnabled, \* React state `gpsEnabled`
    poll,       \* position and locals of each GPS status poll in flight
    warned,     \* GPS Disabled notifications of the current outage
    displayed,  \* ids of the alarm-<id> notifications on display
    refresh,    \* locals of the notification refresh tick in flight
    withdrawn,  \* ids stopped or toggled off since they last rang
    last        \* observable effect of the step just taken

vars == <<store, alarms, location, now, pc, snap, ploc, arg, soundObject, tray,
          epi, ops, target, servicesEnabled, hasStarted, hasShownGpsWarning,
          gpsEnabled, poll, warned,
          displayed, refresh, withdrawn, last>>

\* What only the GPS status poll and the location services change.
gpsVars == <<servicesEnabled, hasStarted, hasShownGpsWarning, poll, warned>>

\* What only the revision with the notification refresh timer changes.
notifVars == <<displayed, refresh, withdrawn>>

----------------------------------------------------------------------------
(* Bounds *)

MaxZones == 2
MaxTicks == 2
MaxOps == 4
EpiCap == 2
WarnCap == 2

(* Program constants *)

SnoozeMs == 300000
DefaultRadius == 500

(* Sampling of the inputs *)

TickMs == SnoozeMs
GridM == DefaultRadius \div 5
Lon0 == 772090
NoLoc == 0 - 1

\* Device positions: 400 m, 500 m and 600 m north of the zone centre (inside,
\* on and outside the default radius); the interleaved specification
\* samples one inside and one outside.
DevLats == {4, 5, 6}
RaceLats == {4, 6}
ZoneLats == {0}
Radii == {DefaultRadius}
Names == {"Home"}

Times == {TickMs * k : k \in 1..(MaxTicks + 1)}

Procs == {"fg", "bg", "ui", "nr"}

\* GPS status polls that can be in flight together: the interval timer does
\* not wait for the callback of the tick before.
Polls == {"t1", "t2"}

IdlePoll == [at |-> "idle", enabled |-> TRUE, hasStarted |-> TRUE]
IdlePolls == [g \in Polls |-> IdlePoll]

\* No tick of the notification refresh timer in flight.
IdleRefresh == [at |-> "idle", loaded |-> <<>>, queue |-> <<>>, issued |-> <<>>]

----------------------------------------------------------------------------
(* Pure helpers *)

Abs(x) == IF x < 0 THEN 0 - x ELSE x

\* Date.now().toString()
NewId(t) == ToString(t)

AllIds == {NewId(t) : t \in Times}

\* JSON.stringify / JSON.parse of the collection; getItem yields null (has =
\* FALSE) until the key was written.
NullJson == [has |-> FALSE, zs |-> <<>>]
Stringify(zs) == [has |-> TRUE, zs |-> zs]
Parse(json) == json.zs

Coords(lat) == [latitude |-> lat, longitude |-> Lon0]

\* A field that is not a number after JSON.parse: null (which is also what
\* JSON.stringify writes for NaN) or missing (undefined).  In arithmetic
\* null counts as 0 and undefined gives NaN; a comparison with NaN is false.
JsNull == 0 - 2
JsUndefined == 0 - 3
NaN == 0 - 4

ToNumber(x) == IF x = JsNull THEN 0 ELSE IF x = JsUndefined THEN NaN ELSE x

LessEq(x, y) ==
    ToNumber(x) # NaN /\ ToNumber(y) # NaN /\ ToNumber(x) <= ToNumber(y)

\* Haversine distance.  On one meridian (lon1 = lon2) a = sin^2(dphi/2), so
\* c = 2*atan2(sqrt a, sqrt(1-a)) = |dphi| and R*c is the arc length between
\* the two latitudes.
getDistance(lat1, lon1, lat2, lon2) ==
    LET a == ToNumber(lat1)
        b == ToNumber(lat2)
        c == ToNumber(lon1)
        d == ToNumber(lon2)
    IN  IF NaN \in {a, b, c, d} THEN NaN
        ELSE CASE c = d -> GridM * Abs(b - a)

Ids(zs) == {zs[i].id : i \in 1..Len(zs)}

----------------------------------------------------------------------------
(* checkAlarms *)

Keep(alarm) ==
    [alarm |-> alarm, play |-> 0, notify |-> <<>>, updated |-> FALSE]

\* Variants of the map callback, each a slip the contract rules out.
Hit(alarm) ==
    [alarm   |-> [alarm EXCEPT !.triggered = TRUE],
     play    |-> 1,
     notify  |-> <<alarm.id>>,
     updated |-> TRUE]

Near(alarm, currentLoc) ==
    GridM * Abs(alarm.latitude - currentLoc.latitude) <= alarm.radius

CheckOne_NoTriggeredGuard(alarm, currentLoc, t) ==
    IF ~alarm.active THEN Keep(alarm)
    ELSE IF alarm.snoozedUntil # 0 /\ t < alarm.snoozedUntil THEN Keep(alarm)
    ELSE IF Near(alarm, currentLoc) THEN Hit(alarm) ELSE Keep(alarm)

CheckOne_NoActiveGuard(alarm, currentLoc, t) ==
    IF alarm.triggered THEN Keep(alarm)
    ELSE IF alarm.snoozedUntil # 0 /\ t < alarm.snoozedUntil THEN Keep(alarm)
    ELSE IF Near(alarm, currentLoc) THEN Hit(alarm) ELSE Keep(alarm)

CheckOne_StrictRadius(alarm, currentLoc, t) ==
    IF ~alarm.active THEN Keep(alarm)
    ELSE IF alarm.triggered THEN Keep(alarm)
    ELSE IF alarm.snoozedUntil # 0 /\ t < alarm.snoozedUntil THEN Keep(alarm)
    ELSE IF GridM * Abs(alarm.latitude - currentLoc.latitude) < alarm.radius
         THEN Hit(alarm) ELSE Keep(alarm)

CheckOne_NotifiesName(alarm, currentLoc, t) ==
    IF ~alarm.active THEN Keep(alarm)
    ELSE IF alarm.triggered THEN Keep(alarm)
    ELSE IF alarm.snoozedUntil # 0 /\ t < alarm.snoozedUntil THEN Keep(alarm)
    ELSE IF Near(alarm, currentLoc)
         THEN [Hit(alarm) EXCEPT !.notify = <<alarm.name>>] ELSE Keep(alarm)

CheckOne_NoSnoozeGuard(alarm, currentLoc, t) ==
    IF ~alarm.active THEN Keep(alarm)
    ELSE IF alarm.triggered THEN Keep(alarm)
    ELSE IF Near(alarm, currentLoc) THEN Hit(alarm) ELSE Keep(alarm)

CheckOne_SnoozeForever(alarm, currentLoc, t) ==
    IF ~alarm.active THEN Keep(alarm)
    ELSE IF alarm.triggered THEN Keep(alarm)
    ELSE IF alarm.snoozedUntil # 0 THEN Keep(alarm)
    ELSE IF Near(alarm, currentLoc) THEN Hit(alarm) ELSE Keep(alarm)

CheckOne_ClearsActive(alarm, currentLoc, t) ==
    IF ~alarm.active THEN Keep(alarm)
    ELSE IF alarm.triggered THEN Keep(alarm)
    ELSE IF alarm.snoozedUntil # 0 /\ t < alarm.snoozedUntil THEN Keep(alarm)
    ELSE IF Near(alarm, currentLoc)
         THEN [Hit(alarm) EXCEPT !.alarm.active = FALSE] ELSE Keep(alarm)

\* The callback of savedAlarms.map: the record it returns, the number of
\* playAlarmSound() calls, the alarmIds of the notifications it schedules,
\* and whether it sets alarmsUpdated.
CheckOne(alarm, currentLoc, t) ==
    IF ~alarm.active THEN Keep(alarm)
    ELSE IF alarm.triggered THEN Keep(alarm)
    ELSE IF alarm.snoozedUntil # 0 /\ t < alarm.snoozedUntil THEN Keep(alarm)
    ELSE IF LessEq(getDistance(currentLoc.latitude, currentLoc.longitude,
                               alarm.latitude, alarm.longitude), alarm.radius)
         THEN [alarm   |-> [alarm EXCEPT !.triggered = TRUE],
               play    |-> 1,
               notify  |-> <<alarm.id>>,
               updated |-> TRUE]
         ELSE Keep(alarm)

\* The body of checkAlarms between its two awaits, on the loaded json.
CheckAlarms(json, currentLoc, t) ==
    LET savedAlarms == IF json.has THEN Parse(json) ELSE <<>>
        n == Len(savedAlarms)
        r == [i \in 1..n |-> CheckOne(savedAlarms[i], currentLoc, t)]
        note(i) == [k \in 1..Len(r[i].notify) |->
                       [idx |-> i, alarmId |-> r[i].notify[k]]]
        ring(i) == [k \in 1..r[i].play |-> i]
        ev[i \in 0..n] == IF i = 0 THEN <<>> ELSE ev[i - 1] \o note(i)
        pl[i \in 0..n] == IF i = 0 THEN <<>> ELSE pl[i - 1] \o ring(i)
    IN  [savedAlarms   |-> savedAlarms,
         updatedAlarms |-> [i \in 1..n |-> r[i].alarm],
         alarmsUpdated |-> \E i \in 1..n : r[i].updated,
         events        |-> ev[n],
         sounds        |-> pl[n]]

\* The operations of a checkAlarms call that can fail.
Faults == {"load", "save", "sound", "notify"}

\* getItem rejects: the catch is entered before anything was computed.
Abandoned ==
    [savedAlarms |-> <<>>, updatedAlarms |-> <<>>, alarmsUpdated |-> FALSE,
     events |-> <<>>, sounds |-> <<>>]

\* Variant that awaits the sound and the notification inside the try, so
\* that their failure enters the catch before the setItem.
Attempt_AwaitsSinks(json, currentLoc, t, fail) ==
    LET c == CheckAlarms(json, currentLoc, t)
    IN  IF "load" \in fail THEN Abandoned
        ELSE IF Len(c.events) > 0 /\ fail \cap {"sound", "notify"} # {}
             THEN [c EXCEPT !.alarmsUpdated = FALSE,
                            !.updatedAlarms = c.savedAlarms]
             ELSE c

\* The try block up to the end of the map.  playAlarmSound() and
\* scheduleNotificationAsync(...) are called without await: their failure
\* does not reach the try.
Attempt(json, currentLoc, t, fail) ==
    IF "load" \in fail THEN Abandoned ELSE CheckAlarms(json, currentLoc, t)

\* Variant that writes the list back on every call.
Finish_AlwaysWrites(alarmsUpdated, saveOk) ==
    [wrote  |-> saveOk,
     result |-> alarmsUpdated /\ saveOk,
     threw  |-> FALSE]

\* `if (alarmsUpdated) { await setItem(...); return true; }` inside the try,
\* `catch (e) {}` and `return false` after it.
Finish(alarmsUpdated, saveOk) ==
    [wrote  |-> alarmsUpdated /\ saveOk,
     result |-> alarmsUpdated /\ saveOk,
     threw  |-> FALSE]

\* playAlarmSound: nothing to do when the sound is loaded and playing;
\* otherwise unload, load, loop and play, any error being caught.
playAlarmSound(s, ok) ==
    IF s = "playing" THEN "playing" ELSE IF ok THEN "playing" ELSE "unloaded"

\* stopAlarmSound: stop and unload when loaded.
stopAlarmSound(s) == "unloaded"

----------------------------------------------------------------------------
(* checkAlarms of the earliest revision (src/unnamed/part_000, from line     *)
(* 832): no try/catch, no sound, and a trigger also clears active.           *)

CheckOneEarly(alarm, currentLoc, t) ==
    IF ~alarm.active \/ alarm.triggered THEN Keep(alarm)
    ELSE IF alarm.snoozedUntil # 0 /\ t < alarm.snoozedUntil THEN Keep(alarm)
    ELSE IF LessEq(getDistance(currentLoc.latitude, currentLoc.longitude,
                               alarm.latitude, alarm.longitude), alarm.radius)
         THEN [alarm   |-> [alarm EXCEPT !.triggered = TRUE, !.active = FALSE],
               play    |-> 0,
               notify  |-> <<alarm.id>>,
               updated |-> TRUE]
         ELSE Keep(alarm)

CheckAlarmsEarly(json, currentLoc, t) ==
    LET savedAlarms == IF json.has THEN Parse(json) ELSE <<>>
        n == Len(savedAlarms)
        r == [i \in 1..n |-> CheckOneEarly(savedAlarms[i], currentLoc, t)]
        note(i) == [k \in 1..Len(r[i].notify) |->
                       [idx |-> i, alarmId |-> r[i].notify[k]]]
        ev[i \in 0..n] == IF i = 0 THEN <<>> ELSE ev[i - 1] \o note(i)
    IN  [savedAlarms   |-> savedAlarms,
         updatedAlarms |-> [i \in 1..n |-> r[i].alarm],
         alarmsUpdated |-> \E i \in 1..n : r[i].updated,
         events        |-> ev[n],
         sounds        |-> <<>>]

\* The store operations of a call that can fail.
StoreFaults == {"load", "save"}

\* A rejected getItem or setItem rejects the promise of checkAlarms.
FinishEarly(loadOk, alarmsUpdated, saveOk) ==
    [wrote  |-> loadOk /\ alarmsUpdated /\ saveOk,
     result |-> loadOk /\ alarmsUpdated /\ saveOk,
     threw  |-> ~loadOk \/ (alarmsUpdated /\ ~saveOk)]

----------------------------------------------------------------------------
(* Bookkeeping *)

\* op, id, pos, time: the step and its arguments; before: the store when the
\* step began; loaded, written: the list it worked from and the list it
\* produced; saved: whether it wrote the store; events, sounds: the
\* notifications and sound starts it requested; name, radius: the form
\* values of a saveAlarm; proc, fail, ret, threw: the caller of a checkAlarms
\* call, the operations that failed in it, its result and whether it
\* rejected; sound: the soundObject when the step began.
NoCall ==
    [op |-> "none", id |-> "", pos |-> NoLoc, time |-> 0,
     name |-> "", radius |-> 0, proc |-> "", fail |-> {},
     before |-> NullJson, loaded |-> <<>>, written |-> <<>>, saved |-> FALSE,
     ret |-> FALSE, threw |-> FALSE, sound |-> "unloaded",
     events |-> <<>>, sounds |-> <<>>]

Count(events, id) ==
    Cardinality({i \in 1..Len(events) : events[i].alarmId = id})

Min(a, b) == IF a < b THEN a ELSE b

EpiAfter(events) ==
    [id \in AllIds |-> Min(EpiCap, epi[id] + Count(events, id))]

EpiReset(id) == [epi EXCEPT ![id] = 0]

AlarmIds(events) == {events[i].alarmId : i \in 1..Len(events)}

\* Scheduling of handler starts: any interleaving, MaxOps handlers in all;
\* or one handler at a time, each running to completion.
Budget == ops < MaxOps /\ ops' = ops + 1
Serial == (\A p \in Procs : pc[p] = "idle") /\ ops' = ops

----------------------------------------------------------------------------
Init ==
    /\ store = NullJson
    /\ alarms = <<>>
    /\ location = NoLoc
    /\ now = TickMs
    /\ pc = [p \in Procs |-> "idle"]
    /\ snap = [p \in Procs |-> NullJson]
    /\ ploc = [p \in Procs |-> NoLoc]
    /\ arg = ""
    /\ soundObject = "unloaded"
    /\ tray = {}
    /\ epi = [id \in AllIds |-> 0]
    /\ ops = 0
    /\ target = ""
    /\ servicesEnabled = TRUE
    /\ hasStarted = TRUE
    /\ hasShownGpsWarning = FALSE
    /\ gpsEnabled = TRUE
    /\ poll = IdlePolls
    /\ warned = 0
    /\ displayed = {}
    /\ refresh = IdleRefresh
    /\ withdrawn = {}
    /\ last = NoCall

\* Time passes.
Tick ==
    /\ now < TickMs * (MaxTicks + 1)
    /\ now' = now + TickMs
    /\ last' = NoCall
    /\ UNCHANGED <<store, alarms, location, pc, snap, ploc, arg, soundObject,
                   tray, epi, ops, target, gpsEnabled, gpsVars, notifVars>>

----------------------------------------------------------------------------
(* checkAlarms, shared by every caller *)

\* await AsyncStorage.getItem(STORAGE_KEY)
Load(p) ==
    /\ snap' = [snap EXCEPT ![p] = store]

\* Everything from `const savedAlarms` to the return, with the setItem.
\* fail names the operations that fail in this call: the getItem ("load"),
\* the setItem ("save"), playAlarmSound ("sound"), scheduleNotificationAsync
\* ("notify").  The callers that refresh the list (all but the background
\* task) go on to loadAlarms when the result is true.
Compute(p, fail) ==
    /\ pc[p] = "compute"
    /\ LET c == Attempt(snap[p], Coords(ploc[p]), now, fail)
           f == Finish(c.alarmsUpdated, "save" \notin fail)
           shown == IF "notify" \in fail THEN <<>> ELSE c.events
       IN  /\ store' = IF f.wrote THEN Stringify(c.updatedAlarms) ELSE store
           /\ soundObject' = IF Len(c.sounds) > 0
                             THEN playAlarmSound(soundObject, "sound" \notin fail)
                             ELSE soundObject
           /\ tray' = tray \cup AlarmIds(shown)
           /\ epi' = EpiAfter(shown)
           /\ pc' = [pc EXCEPT ![p] =
                        IF f.result /\ p # "bg" THEN "reload" ELSE "idle"]
           /\ last' = [NoCall EXCEPT
                          !.op = "checkAlarms", !.pos = ploc[p], !.time = now,
                          !.id = IF p = "ui" THEN target ELSE "",
                          !.proc = p, !.fail = fail, !.before = store,
                          !.loaded = c.savedAlarms, !.written = c.updatedAlarms,
                          !.saved = f.wrote, !.ret = f.result, !.threw = f.threw,
                          !.sound = soundObject,
                          !.events = c.events, !.sounds = c.sounds]
    /\ snap' = [snap EXCEPT ![p] = NullJson]
    /\ ploc' = [ploc EXCEPT ![p] = NoLoc]
    /\ target' = IF p = "ui" THEN "" ELSE target
    /\ UNCHANGED <<alarms, location, now, arg, ops, gpsEnabled, gpsVars, notifVars>>

\* checkAlarms of the earliest revision after its getItem.  When it rejects,
\* the awaiting caller (watcher callback, background task, saveAlarm)
\* rejects with it and does nothing more.
ComputeEarly(p, fail) ==
    /\ pc[p] = "compute"
    /\ LET c == IF "load" \in fail
                THEN Abandoned
                ELSE CheckAlarmsEarly(snap[p], Coords(ploc[p]), now)
           f == FinishEarly("load" \notin fail, c.alarmsUpdated, "save" \notin fail)
       IN  /\ store' = IF f.wrote THEN Stringify(c.updatedAlarms) ELSE store
           /\ tray' = tray \cup AlarmIds(c.events)
           /\ epi' = EpiAfter(c.events)
           /\ pc' = [pc EXCEPT ![p] =
                        IF f.result /\ p # "bg" THEN "reload" ELSE "idle"]
           /\ last' = [NoCall EXCEPT
                          !.op = "checkAlarms", !.pos = ploc[p], !.time = now,
                          !.id = IF p = "ui" THEN target ELSE "",
                          !.proc = p, !.fail = fail, !.before = store,
                          !.loaded = c.savedAlarms, !.written = c.updatedAlarms,
                          !.saved = f.wrote, !.ret = f.result, !.threw = f.threw,
                          !.sound = soundObject,
                          !.events = c.events, !.sounds = c.sounds]
    /\ snap' = [snap EXCEPT ![p] = NullJson]
    /\ ploc' = [ploc EXCEPT ![p] = NoLoc]
    /\ target' = IF p = "ui" THEN "" ELSE target
    /\ UNCHANGED <<alarms, location, now, arg, soundObject, ops, gpsEnabled, gpsVars, notifVars>>

\* loadAlarms: the getItem
Reload(p) ==
    /\ pc[p] = "reload"
    /\ Load(p)
    /\ pc' = [pc EXCEPT ![p] = "setalarms"]
    /\ last' = NoCall
    /\ UNCHANGED <<store, alarms, location, now, ploc, arg, soundObject, tray,
                   epi, ops, target, gpsEnabled, gpsVars, notifVars>>

\* loadAlarms: if (json) setAlarms(JSON.parse(json))
SetAlarms(p) ==
    /\ pc[p] = "setalarms"
    /\ alarms' = IF snap[p].has THEN Parse(snap[p]) ELSE alarms
    /\ snap' = [snap EXCEPT ![p] = NullJson]
    /\ pc' = [pc EXCEPT ![p] = "idle"]
    /\ last' = NoCall
    /\ UNCHANGED <<soundObject, store, location, now, ploc, arg, tray, epi, ops, target, gpsEnabled, gpsVars, notifVars>>

----------------------------------------------------------------------------
(* Position sources *)

\* watchPositionAsync callback: setLocation(loc); setGpsEnabled(true);
\* checkAlarms(loc.coords)
WatchPosition(lat) ==
    /\ pc["fg"] = "idle"
    /\ location' = lat
    /\ gpsEnabled' = TRUE
    /\ Load("fg")
    /\ ploc' = [ploc EXCEPT !["fg"] = lat]
    /\ pc' = [pc EXCEPT !["fg"] = "compute"]
    /\ last' = NoCall
    /\ UNCHANGED <<soundObject, store, alarms, now, arg, tray, epi, target, gpsVars, notifVars>>

\* LOCATION_TASK_NAME task: checkAlarms(locations[0].coords)
BackgroundTask(lat) ==
    /\ hasStarted
    /\ pc["bg"] = "idle"
    /\ Load("bg")
    /\ ploc' = [ploc EXCEPT !["bg"] = lat]
    /\ pc' = [pc EXCEPT !["bg"] = "compute"]
    /\ last' = NoCall
    /\ UNCHANGED <<soundObject, store, alarms, location, now, arg, tray, epi, target, gpsEnabled, gpsVars, notifVars>>

----------------------------------------------------------------------------
(* UI handlers.  A handler reads the `alarms` and `location` of the render  *)
(* it was created in, which is the current one when the user taps.          *)

\* After `await AsyncStorage.setItem`: if (location) checkAlarms(...)
AfterWrite(p, id) ==
    /\ ploc' = [ploc EXCEPT ![p] = location]
    /\ pc' = [pc EXCEPT ![p] = IF location # NoLoc THEN "check" ELSE "idle"]
    /\ target' = IF location # NoLoc THEN id ELSE ""

\* checkAlarms called by saveAlarm / toggleAlarm: the getItem
Check(p) ==
    /\ pc[p] = "check"
    /\ Load(p)
    /\ pc' = [pc EXCEPT ![p] = "compute"]
    /\ last' = NoCall
    /\ UNCHANGED <<store, alarms, location, now, ploc, arg, soundObject, tray,
                   epi, ops, target, gpsEnabled, gpsVars, notifVars>>

\* Variant that flips active and leaves triggered as it is.
ToggleOne_KeepsTriggered(a, id) ==
    IF a.id = id THEN [a EXCEPT !.active = ~a.active] ELSE a

ToggleOne(a, id) ==
    IF a.id = id THEN [a EXCEPT !.active = ~a.active, !.triggered = FALSE] ELSE a

toggleAlarm(id) ==
    /\ pc["ui"] = "idle"
    /\ id \in Ids(alarms)
    /\ LET updated == [i \in 1..Len(alarms) |-> ToggleOne(alarms[i], id)]
       IN  /\ alarms' = updated
           /\ store' = Stringify(updated)
           /\ last' = [NoCall EXCEPT !.op = "toggle", !.id = id, !.time = now,
                                     !.before = store,
                                     !.loaded = alarms, !.written = updated,
                                     !.saved = TRUE]
    /\ AfterWrite("ui", id)
    /\ epi' = EpiReset(id)
    /\ UNCHANGED <<soundObject, location, now, snap, arg, tray, gpsEnabled, gpsVars, notifVars>>

EditOne(a, editingId, tempName, tempRadius) ==
    IF a.id = editingId
    THEN [a EXCEPT !.name = tempName, !.radius = tempRadius,
                   !.active = TRUE, !.triggered = FALSE]
    ELSE a

\* startEditing(alarm), the form, then saveAlarm with editingId set
saveAlarmEdit(editingId, tempName, tempRadius) ==
    /\ pc["ui"] = "idle"
    /\ editingId \in Ids(alarms)
    /\ LET newAlarmsList ==
               [i \in 1..Len(alarms) |->
                    EditOne(alarms[i], editingId, tempName, tempRadius)]
       IN  /\ alarms' = newAlarmsList
           /\ store' = Stringify(newAlarmsList)
           /\ last' = [NoCall EXCEPT !.op = "edit", !.id = editingId,
                                     !.name = tempName, !.radius = tempRadius,
                                     !.time = now, !.before = store, !.loaded = alarms,
                                     !.written = newAlarmsList, !.saved = TRUE]
    /\ AfterWrite("ui", editingId)
    /\ epi' = EpiReset(editingId)
    /\ UNCHANGED <<soundObject, location, now, snap, arg, tray, gpsEnabled, gpsVars, notifVars>>

NewAlarm(t, tempName, selectedCoord, tempRadius) ==
    [id |-> NewId(t), name |-> tempName,
     latitude |-> selectedCoord.latitude, longitude |-> selectedCoord.longitude,
     radius |-> tempRadius, active |-> TRUE, triggered |-> FALSE,
     snoozedUntil |-> 0]

\* map press, startCreating, the form, then saveAlarm with editingId null
saveAlarmNew(lat, tempName, tempRadius) ==
    /\ pc["ui"] = "idle"
    /\ Len(alarms) < MaxZones
    /\ LET newAlarmsList ==
               Append(alarms, NewAlarm(now, tempName, Coords(lat), tempRadius))
       IN  /\ alarms' = newAlarmsList
           /\ store' = Stringify(newAlarmsList)
           /\ last' = [NoCall EXCEPT !.op = "create", !.id = NewId(now),
                                     !.pos = lat,
                                     !.name = tempName, !.radius = tempRadius,
                                     !.time = now, !.before = store, !.loaded = alarms,
                                     !.written = newAlarmsList, !.saved = TRUE]
    /\ AfterWrite("ui", NewId(now))
    /\ UNCHANGED <<soundObject, location, now, snap, arg, tray, epi, gpsEnabled, gpsVars, notifVars>>

deleteAlarm(id) ==
    /\ pc["ui"] = "idle"
    /\ id \in Ids(alarms)
    /\ LET updated == SelectSeq(alarms, LAMBDA a : a.id # id)
       IN  /\ alarms' = updated
           /\ store' = Stringify(updated)
           /\ last' = [NoCall EXCEPT !.op = "delete", !.id = id, !.time = now,
                                     !.before = store,
                                     !.loaded = alarms, !.written = updated,
                                     !.saved = TRUE]
    /\ epi' = EpiReset(id)
    /\ UNCHANGED <<soundObject, location, now, pc, snap, ploc, arg, tray, target, gpsEnabled, gpsVars, notifVars>>

----------------------------------------------------------------------------
(* Notification response listener *)

\* The listener calls stopAlarmSound() on every response, then dispatches on
\* the action.

\* action 'stop' -> stopAlarmAndRefresh(alarmId): the getItem
NotifStop(id) ==
    /\ pc["nr"] = "idle"
    /\ id \in tray
    /\ soundObject' = stopAlarmSound(soundObject)
    /\ Load("nr")
    /\ arg' = id
    /\ pc' = [pc EXCEPT !["nr"] = "stop"]
    /\ last' = [NoCall EXCEPT !.op = "onStop", !.id = id, !.time = now,
                              !.before = store, !.sound = soundObject]
    /\ UNCHANGED <<store, alarms, location, now, ploc, tray, epi, target, gpsEnabled, gpsVars, notifVars>>

\* action 'snooze' -> snoozeAlarm(alarmId): the getItem
NotifSnooze(id) ==
    /\ pc["nr"] = "idle"
    /\ id \in tray
    /\ soundObject' = stopAlarmSound(soundObject)
    /\ Load("nr")
    /\ arg' = id
    /\ pc' = [pc EXCEPT !["nr"] = "snooze"]
    /\ last' = [NoCall EXCEPT !.op = "onSnooze", !.id = id, !.time = now,
                              !.before = store, !.sound = soundObject]
    /\ UNCHANGED <<store, alarms, location, now, ploc, tray, epi, target, gpsEnabled, gpsVars, notifVars>>

\* tap on the notification body: stopAlarmSound() and nothing else
NotifTap(id) ==
    /\ pc["nr"] = "idle"
    /\ id \in tray
    /\ soundObject' = stopAlarmSound(stopAlarmSound(soundObject))
    /\ last' = [NoCall EXCEPT !.op = "onTap", !.id = id, !.time = now,
                              !.before = store, !.sound = soundObject]
    /\ UNCHANGED <<store, alarms, location, now, pc, snap, ploc, arg, tray, epi, target, gpsEnabled, gpsVars, notifVars>>

StopOne_KeepsActive(a, id) ==
    IF a.id = id THEN [a EXCEPT !.triggered = FALSE] ELSE a

StopOne(a, id) ==
    IF a.id = id THEN [a EXCEPT !.triggered = FALSE, !.active = FALSE] ELSE a

\* Variant that rebuilds the snoozed record under a fresh id.
SnoozeOne_NewId(a, id, t) ==
    IF a.id = id
    THEN [a EXCEPT !.id = NewId(t), !.triggered = FALSE, !.active = TRUE,
                   !.snoozedUntil = t + SnoozeMs]
    ELSE a

SnoozeOne(a, id, t) ==
    IF a.id = id
    THEN [a EXCEPT !.triggered = FALSE, !.active = TRUE,
                   !.snoozedUntil = t + SnoozeMs]
    ELSE a

\* stopAlarmAndRefresh / snoozeAlarm after the getItem: if (!json) return;
\* otherwise map the loaded list and setItem it.
Apply(op, updated) ==
    /\ pc["nr"] = op
    /\ IF ~snap["nr"].has
       THEN /\ pc' = [pc EXCEPT !["nr"] = "idle"]
            /\ snap' = [snap EXCEPT !["nr"] = NullJson]
            /\ arg' = ""
            /\ last' = [NoCall EXCEPT !.op = op, !.id = arg, !.time = now,
                                      !.before = store]
            /\ UNCHANGED <<store, epi>>
       ELSE LET currentList == Parse(snap["nr"])
            IN  /\ store' = Stringify(updated)
                /\ snap' = [snap EXCEPT !["nr"] = Stringify(updated)]
                /\ pc' = [pc EXCEPT !["nr"] = "setupdated"]
                /\ arg' = arg
                /\ epi' = EpiReset(arg)
                /\ last' = [NoCall EXCEPT !.op = op, !.id = arg, !.time = now,
                                          !.before = store,
                                          !.loaded = currentList,
                                          !.written = updated, !.saved = TRUE]
    /\ UNCHANGED <<soundObject, alarms, location, now, ploc, tray, ops, target, gpsEnabled, gpsVars, notifVars>>

stopAlarmAndRefresh ==
    LET currentList == Parse(snap["nr"])
    IN  Apply("stop", [i \in 1..Len(currentList) |-> StopOne(currentList[i], arg)])

\* Variant that maps the in-memory list instead of the loaded one.
snoozeAlarm_FromMemory ==
    LET currentList == alarms
    IN  Apply("snooze",
              [i \in 1..Len(currentList) |-> SnoozeOne(currentList[i], arg, now)])

snoozeAlarm ==
    LET currentList == Parse(snap["nr"])
    IN  Apply("snooze",
              [i \in 1..Len(currentList) |-> SnoozeOne(currentList[i], arg, now)])

\* After `await AsyncStorage.setItem`: setAlarms(updated); stopAlarmSound()
SetUpdated ==
    /\ pc["nr"] = "setupdated"
    /\ alarms' = Parse(snap["nr"])
    /\ soundObject' = stopAlarmSound(soundObject)
    /\ snap' = [snap EXCEPT !["nr"] = NullJson]
    /\ arg' = ""
    /\ pc' = [pc EXCEPT !["nr"] = "idle"]
    /\ last' = NoCall
    /\ UNCHANGED <<store, location, now, ploc, tray, epi, ops, target, gpsEnabled, gpsVars, notifVars>>

----------------------------------------------------------------------------
(* GPS status poll: the callback of startGpsStatusCheck's 3-second timer   *)

\* The rest of the state, which the poll leaves alone.
appVars == <<store, alarms, location, now, pc, snap, ploc, arg, soundObject,
             tray, epi, ops, target>>

\* The user or the system switches the location services.
ServicesOff ==
    /\ servicesEnabled
    /\ servicesEnabled' = FALSE
    /\ warned' = 0
    /\ last' = NoCall
    /\ UNCHANGED <<appVars, gpsEnabled, hasStarted, hasShownGpsWarning, poll, notifVars>>

ServicesOn ==
    /\ ~servicesEnabled
    /\ servicesEnabled' = TRUE
    /\ warned' = 0
    /\ last' = NoCall
    /\ UNCHANGED <<appVars, gpsEnabled, hasStarted, hasShownGpsWarning, poll, notifVars>>

\* The timer fires: const enabled = await Location.hasServicesEnabledAsync()
PollStart(g) ==
    /\ poll[g].at = "idle"
    /\ poll' = [poll EXCEPT ![g] = [IdlePoll EXCEPT !.at = "manage",
                                                    !.enabled = servicesEnabled]]
    /\ last' = NoCall
    /\ UNCHANGED <<appVars, gpsEnabled, servicesEnabled, hasStarted,
                   hasShownGpsWarning, warned, notifVars>>

\* manageBackgroundService(enabled):
\* const hasStarted = await Location.hasStartedLocationUpdatesAsync(...)
PollManage(g) ==
    /\ poll[g].at = "manage"
    /\ poll' = [poll EXCEPT ![g].at = "apply", ![g].hasStarted = hasStarted]
    /\ last' = NoCall
    /\ UNCHANGED <<appVars, gpsEnabled, servicesEnabled, hasStarted,
                   hasShownGpsWarning, warned, notifVars>>

\* The state of the location updates after the start / stop branch, given
\* the hasStarted the call read and the state they are in now.
manageBackgroundService(shouldBeRunning, started, running) ==
    IF shouldBeRunning /\ ~started THEN TRUE
    ELSE IF ~shouldBeRunning /\ started THEN FALSE
    ELSE running

\* await Location.startLocationUpdatesAsync / stopLocationUpdatesAsync
PollApply(g) ==
    /\ poll[g].at = "apply"
    /\ hasStarted' = manageBackgroundService(poll[g].enabled, poll[g].hasStarted,
                                             hasStarted)
    /\ poll' = [poll EXCEPT ![g].at = "finish"]
    /\ last' = NoCall
    /\ UNCHANGED <<appVars, gpsEnabled, servicesEnabled, hasShownGpsWarning,
                   warned, notifVars>>

\* if (!enabled) { ... if (!hasShownGpsWarning.current) scheduleNotificationAsync
Warns(enabled, shown) == ~enabled /\ ~shown

\* After `await manageBackgroundService`: the warning, the ref and
\* setGpsEnabled(enabled).
PollFinish(g) ==
    /\ poll[g].at = "finish"
    /\ warned' = IF Warns(poll[g].enabled, hasShownGpsWarning) /\ ~servicesEnabled
                 THEN Min(WarnCap, warned + 1)
                 ELSE warned
    /\ hasShownGpsWarning' = ~poll[g].enabled
    /\ gpsEnabled' = poll[g].enabled
    /\ poll' = [poll EXCEPT ![g] = IdlePoll]
    /\ last' = [NoCall EXCEPT !.op = "poll", !.proc = g,
                              !.ret = poll[g].enabled,
                              !.saved = Warns(poll[g].enabled, hasShownGpsWarning)]
    /\ UNCHANGED <<appVars, servicesEnabled, hasStarted, notifVars>>

NextGps ==
    \/ ServicesOff
    \/ ServicesOn
    \/ \E g \in Polls : PollStart(g)
    \/ \E g \in Polls : PollManage(g)
    \/ \E g \in Polls : PollApply(g)
    \/ \E g \in Polls : PollFinish(g)

\* The polls of the timer against the location services being switched.
SpecGps == Init /\ [][NextGps]_vars

----------------------------------------------------------------------------
(* The revision with sticky notifications and the 5-second refresh timer   *)
(* (src/unnamed/part_001).  Its loadAlarms, position callbacks and creating *)
(* saveAlarm read as in the primary revision, except that its records have  *)
(* no snoozedUntil, which it never reads.                                   *)

\* The request showAlarmNotification schedules: identifier alarm-<id>, the
\* data it carries, and the vibration pattern of a first delivery.
showAlarmNotification(alarm, silent) ==
    [identifier |-> alarm.id, alarmId |-> alarm.id, isRefresh |-> silent,
     vibrate |-> ~silent]

\* Variant that lets every notification play its sound.
handleNotification_AlwaysSound(notification) ==
    [shouldShowBanner |-> TRUE, shouldPlaySound |-> TRUE]

\* setNotificationHandler: shouldPlaySound is !isRefresh
handleNotification(notification) ==
    [shouldShowBanner |-> TRUE, shouldPlaySound |-> ~notification.isRefresh]

\* A notification as it is presented: the request with the handler's answer.
Present(idx, request) ==
    [idx |-> idx, alarmId |-> request.alarmId, isRefresh |-> request.isRefresh,
     vibrate |-> request.vibrate,
     shouldPlaySound |-> handleNotification(request).shouldPlaySound]

\* The map callback of this revision's checkAlarms.
CheckOneSticky(alarm, currentLoc) ==
    IF ~alarm.active THEN Keep(alarm)
    ELSE IF alarm.triggered THEN Keep(alarm)
    ELSE IF LessEq(getDistance(currentLoc.latitude, currentLoc.longitude,
                               alarm.latitude, alarm.longitude), alarm.radius)
         THEN [alarm   |-> [alarm EXCEPT !.triggered = TRUE],
               play    |-> 1,
               notify  |-> <<showAlarmNotification(alarm, FALSE)>>,
               updated |-> TRUE]
         ELSE Keep(alarm)

CheckAlarmsSticky(json, currentLoc) ==
    LET savedAlarms == IF json.has THEN Parse(json) ELSE <<>>
        n == Len(savedAlarms)
        r == [i \in 1..n |-> CheckOneSticky(savedAlarms[i], currentLoc)]
        note(i) == [k \in 1..Len(r[i].notify) |-> Present(i, r[i].notify[k])]
        ring(i) == [k \in 1..r[i].play |-> i]
        ev[i \in 0..n] == IF i = 0 THEN <<>> ELSE ev[i - 1] \o note(i)
        pl[i \in 0..n] == IF i = 0 THEN <<>> ELSE pl[i - 1] \o ring(i)
    IN  [savedAlarms   |-> savedAlarms,
         updatedAlarms |-> [i \in 1..n |-> r[i].alarm],
         alarmsUpdated |-> \E i \in 1..n : r[i].updated,
         events        |-> ev[n],
         sounds        |-> pl[n]]

\* checkAlarms of this revision after its getItem.
ComputeSticky(p) ==
    /\ pc[p] = "compute"
    /\ LET c == CheckAlarmsSticky(snap[p], Coords(ploc[p]))
           f == Finish(c.alarmsUpdated, TRUE)
       IN  /\ store' = IF f.wrote THEN Stringify(c.updatedAlarms) ELSE store
           /\ soundObject' = IF Len(c.sounds) > 0
                             THEN playAlarmSound(soundObject, TRUE)
                             ELSE soundObject
           /\ tray' = tray \cup AlarmIds(c.events)
           /\ displayed' = displayed \cup AlarmIds(c.events)
           /\ withdrawn' = withdrawn \ AlarmIds(c.events)
           /\ epi' = EpiAfter(c.events)
           /\ pc' = [pc EXCEPT ![p] =
                        IF f.result /\ p # "bg" THEN "reload" ELSE "idle"]
           /\ last' = [NoCall EXCEPT
                          !.op = "checkAlarms", !.pos = ploc[p], !.time = now,
                          !.id = IF p = "ui" THEN target ELSE "",
                          !.proc = p, !.before = store,
                          !.loaded = c.savedAlarms, !.written = c.updatedAlarms,
                          !.saved = f.wrote, !.ret = f.result, !.threw = f.threw,
                          !.sound = soundObject,
                          !.events = c.events, !.sounds = c.sounds]
    /\ snap' = [snap EXCEPT ![p] = NullJson]
    /\ ploc' = [ploc EXCEPT ![p] = NoLoc]
    /\ target' = IF p = "ui" THEN "" ELSE target
    /\ UNCHANGED <<alarms, location, now, arg, ops, gpsEnabled, gpsVars, refresh>>

\* savedAlarms.filter(a => a.active && a.triggered)
Ringing(a) == a.active /\ a.triggered

\* The refresh timer fires: getItem, if (!json) return, parse and filter.
RefreshTick ==
    /\ refresh.at = "idle"
    /\ LET savedAlarms == IF store.has THEN Parse(store) ELSE <<>>
       IN  refresh' = [at |-> "show", loaded |-> savedAlarms,
                       queue |-> SelectSeq(savedAlarms, Ringing),
                       issued |-> <<>>]
    /\ last' = NoCall
    /\ UNCHANGED <<appVars, gpsEnabled, gpsVars, displayed, withdrawn>>

\* One turn of the loop: await showAlarmNotification(alarm, true)
RefreshShow ==
    /\ refresh.at = "show"
    /\ refresh.queue # <<>>
    /\ LET alarm == Head(refresh.queue)
           n == Present(0, showAlarmNotification(alarm, TRUE))
       IN  /\ displayed' = displayed \cup {alarm.id}
           /\ refresh' = [refresh EXCEPT !.queue = Tail(refresh.queue),
                                         !.issued = Append(refresh.issued, n)]
    /\ last' = NoCall
    /\ UNCHANGED <<appVars, gpsEnabled, gpsVars, withdrawn>>

\* The loop is over and the callback returns.
RefreshDone ==
    /\ refresh.at = "show"
    /\ refresh.queue = <<>>
    /\ refresh' = IdleRefresh
    /\ last' = [NoCall EXCEPT !.op = "refresh", !.time = now,
                              !.before = store, !.loaded = refresh.loaded,
                              !.events = refresh.issued]
    /\ UNCHANGED <<appVars, gpsEnabled, gpsVars, displayed, withdrawn>>

\* The listener of this revision on action 'stop': stopAlarmSound(), then
\* stopAlarmAndRefresh(alarmId) up to its getItem.  The user presses the
\* button of a notification on display.
NotifStopSticky(id) ==
    /\ pc["nr"] = "idle"
    /\ id \in displayed
    /\ soundObject' = stopAlarmSound(soundObject)
    /\ Load("nr")
    /\ arg' = id
    /\ pc' = [pc EXCEPT !["nr"] = "stop"]
    /\ last' = [NoCall EXCEPT !.op = "onStop", !.id = id, !.time = now,
                              !.before = store, !.sound = soundObject]
    /\ UNCHANGED <<store, alarms, location, now, ploc, tray, epi, target,
                   gpsEnabled, gpsVars, notifVars>>

\* stopAlarmAndRefresh after its setItem: setAlarms(updated); stopAlarmSound();
\* await Notifications.dismissNotificationAsync(`alarm-${id}`)
SetUpdatedSticky ==
    /\ pc["nr"] = "setupdated"
    /\ alarms' = Parse(snap["nr"])
    /\ soundObject' = stopAlarmSound(soundObject)
    /\ displayed' = displayed \ {arg}
    /\ withdrawn' = withdrawn \cup {arg}
    /\ snap' = [snap EXCEPT !["nr"] = NullJson]
    /\ arg' = ""
    /\ pc' = [pc EXCEPT !["nr"] = "idle"]
    /\ last' = [NoCall EXCEPT !.op = "stopped", !.id = arg, !.time = now,
                              !.before = store]
    /\ UNCHANGED <<store, location, now, ploc, tray, epi, ops, target,
                   gpsEnabled, gpsVars, refresh>>

\* alarmToToggle && alarmToToggle.triggered && alarmToToggle.active
wasRinging(list, id) ==
    \E i \in 1..Len(list) :
        /\ list[i].id = id
        /\ \A j \in 1..(i - 1) : list[j].id # id
        /\ list[i].triggered
        /\ list[i].active

\* toggleAlarm of this revision up to its setItem.
toggleAlarmSticky(id) ==
    /\ pc["ui"] = "idle"
    /\ id \in Ids(alarms)
    /\ LET updated == [i \in 1..Len(alarms) |-> ToggleOne(alarms[i], id)]
       IN  /\ alarms' = updated
           /\ store' = Stringify(updated)
           /\ snap' = [snap EXCEPT !["ui"] =
                          IF wasRinging(alarms, id)
                          THEN Stringify(updated) ELSE NullJson]
           /\ last' = [NoCall EXCEPT !.op = "toggle", !.id = id, !.time = now,
                                     !.before = store,
                                     !.loaded = alarms, !.written = updated,
                                     !.saved = TRUE]
    /\ ploc' = [ploc EXCEPT !["ui"] = location]
    /\ pc' = [pc EXCEPT !["ui"] =
                 IF wasRinging(alarms, id) THEN "dismiss"
                 ELSE IF location # NoLoc THEN "check" ELSE "idle"]
    /\ target' = IF wasRinging(alarms, id) \/ location # NoLoc THEN id ELSE ""
    /\ epi' = EpiReset(id)
    /\ UNCHANGED <<soundObject, location, now, arg, tray, gpsEnabled, gpsVars,
                   notifVars>>

\* toggleAlarm, the zone was ringing and is now off: dismissNotificationAsync,
\* stopAlarmSound() if no other zone of the list it wrote rings, and on to the
\* instant check.
ToggleDismiss ==
    /\ pc["ui"] = "dismiss"
    /\ displayed' = displayed \ {target}
    /\ withdrawn' = withdrawn \cup {target}
    /\ soundObject' = IF SelectSeq(Parse(snap["ui"]), Ringing) = <<>>
                      THEN stopAlarmSound(soundObject)
                      ELSE soundObject
    /\ snap' = [snap EXCEPT !["ui"] = NullJson]
    /\ pc' = [pc EXCEPT !["ui"] = IF ploc["ui"] # NoLoc THEN "check" ELSE "idle"]
    /\ target' = IF ploc["ui"] # NoLoc THEN target ELSE ""
    /\ last' = [NoCall EXCEPT !.op = "toggledOff", !.id = target, !.time = now,
                              !.before = store]
    /\ UNCHANGED <<store, alarms, location, now, ploc, arg, tray, epi, ops,
                   gpsEnabled, gpsVars, refresh>>

NextSticky ==
    \/ now < TickMs * 2 /\ Tick
    \/ \E p \in Procs : ComputeSticky(p)
    \/ \E p \in Procs : Reload(p)
    \/ \E p \in Procs : SetAlarms(p)
    \/ Check("ui")
    \/ stopAlarmAndRefresh
    \/ SetUpdatedSticky
    \/ ToggleDismiss
    \/ RefreshTick
    \/ RefreshShow
    \/ RefreshDone
    \/ \E lat \in RaceLats : Serial /\ WatchPosition(lat)
    \/ \E lat \in RaceLats : Serial /\ BackgroundTask(lat)
    \/ \E id \in AllIds : Serial /\ toggleAlarmSticky(id)
    \/ \E lat \in ZoneLats, n \in Names, r \in Radii : Serial /\ saveAlarmNew(lat, n, r)
    \/ \E id \in AllIds : Serial /\ NotifStopSticky(id)

\* The handlers one after another, with the ticks of the refresh timer
\* interleaved with them in every way.
SpecSticky == Init /\ [][NextSticky]_vars

----------------------------------------------------------------------------
(* Position updates that keep coming while the device stays inside.        *)

\* The zone that is followed: the one created at the second instant.  The
\* user creates it and afterwards acts on other zones only.
Watched == NewId(TickMs * 2)
Others == AllIds \ {Watched}

\* Device positions, all within DefaultRadius of the zone centre.
InsideLats == {4}

\* A delivery of the position source is not counted as a user operation.
Delivered == ops' = ops

PositionUpdate ==
    \E lat \in InsideLats :
        \/ Delivered /\ WatchPosition(lat)
        \/ Delivered /\ BackgroundTask(lat)

\* The continuation of handler p after one of its awaits.
Resume(p) ==
    \/ Compute(p, {})
    \/ Reload(p)
    \/ SetAlarms(p)
    \/ p = "ui" /\ Check("ui")
    \/ p = "nr" /\ stopAlarmAndRefresh
    \/ p = "nr" /\ SetUpdated

\* A user operation, LiveOps of them in all.
LiveOps == 2
UserOp == ops < LiveOps /\ ops' = ops + 1

NextLive ==
    \/ now < TickMs * 2 /\ Tick
    \/ \E p \in Procs : Resume(p)
    \/ PositionUpdate
    \/ \E id \in Others : UserOp /\ toggleAlarm(id)
    \/ \E lat \in ZoneLats, n \in Names, r \in Radii : UserOp /\ saveAlarmNew(lat, n, r)
    \/ \E id \in Others : UserOp /\ deleteAlarm(id)
    \/ \E id \in Others : UserOp /\ NotifStop(id)

\* Every interleaving, with the store never failing: an awaited promise
\* resolves, so a handler that can resume does, and the position source keeps
\* delivering.
SpecLive ==
    /\ Init
    /\ [][NextLive]_vars
    /\ \A p \in Procs : WF_vars(Resume(p))
    /\ WF_vars(PositionUpdate)

----------------------------------------------------------------------------
Next ==
    \/ Tick
    \/ \E p \in Procs : Compute(p, {})
    \/ \E p \in Procs : Reload(p)
    \/ \E p \in Procs : SetAlarms(p)
    \/ Check("ui")
    \/ stopAlarmAndRefresh
    \/ snoozeAlarm
    \/ SetUpdated
    \/ \E lat \in RaceLats : Budget /\ WatchPosition(lat)
    \/ \E lat \in RaceLats : Budget /\ BackgroundTask(lat)
    \/ \E id \in AllIds : Budget /\ toggleAlarm(id)
    \/ \E id \in AllIds, n \in Names, r \in Radii : Budget /\ saveAlarmEdit(id, n, r)
    \/ \E lat \in ZoneLats, n \in Names, r \in Radii : Budget /\ saveAlarmNew(lat, n, r)
    \/ \E id \in AllIds : Budget /\ deleteAlarm(id)
    \/ \E id \in AllIds : Budget /\ NotifStop(id)
    \/ \E id \in AllIds : Budget /\ NotifSnooze(id)
    \/ \E id \in AllIds : Budget /\ NotifTap(id)

\* Every interleaving of the handlers.
Spec == Init /\ [][Next]_vars

NextSeq ==
    \/ Tick
    \/ \E p \in Procs : Compute(p, {})
    \/ \E p \in Procs : Reload(p)
    \/ \E p \in Procs : SetAlarms(p)
    \/ Check("ui")
    \/ stopAlarmAndRefresh
    \/ snoozeAlarm
    \/ SetUpdated
    \/ \E lat \in DevLats : Serial /\ WatchPosition(lat)
    \/ \E lat \in DevLats : Serial /\ BackgroundTask(lat)
    \/ \E id \in AllIds : Serial /\ toggleAlarm(id)
    \/ \E id \in AllIds, n \in Names, r \in Radii : Serial /\ saveAlarmEdit(id, n, r)
    \/ \E lat \in ZoneLats, n \in Names, r \in Radii : Serial /\ saveAlarmNew(lat, n, r)
    \/ \E id \in AllIds : Serial /\ deleteAlarm(id)
    \/ \E id \in AllIds : Serial /\ NotifStop(id)
    \/ \E id \in AllIds : Serial /\ NotifSnooze(id)
    \/ \E id \in AllIds : Serial /\ NotifTap(id)

\* The handlers one after another: a handler starts only when every other
\* has run to completion.
SpecSeq == Init /\ [][NextSeq]_vars

NextFail ==
    \/ Tick
    \/ \E p \in Procs, f \in Faults : Compute(p, {f})
    \/ \E p \in Procs : Compute(p, {})
    \/ \E p \in Procs : Reload(p)
    \/ \E p \in Procs : SetAlarms(p)
    \/ Check("ui")
    \/ stopAlarmAndRefresh
    \/ SetUpdated
    \/ \E lat \in RaceLats : Serial /\ WatchPosition(lat)
    \/ \E lat \in RaceLats : Serial /\ BackgroundTask(lat)
    \/ \E id \in AllIds : Serial /\ toggleAlarm(id)
    \/ \E lat \in ZoneLats, n \in Names, r \in Radii : Serial /\ saveAlarmNew(lat, n, r)
    \/ \E id \in AllIds : Serial /\ NotifStop(id)

\* The evaluation cycle with a store and sinks that can fail, one operation
\* of a checkAlarms call at a time; the user creates, toggles and stops
\* zones, the handlers running one after another.
SpecFail == Init /\ [][NextFail]_vars

\* The `alarms` of the first render, which the handlers captured by the
\* listener of the mount effect keep reading: useState([]).
MountAlarms == <<>>

\* Earliest revision, action 'snooze' -> snoozeAlarm(alarmId) of the first
\* render: alarms.map, setAlarms(updated), setItem.
snoozeAlarmEarly(id) ==
    /\ pc["nr"] = "idle"
    /\ id \in tray
    /\ LET updated == [i \in 1..Len(MountAlarms) |->
                          SnoozeOne(MountAlarms[i], id, now)]
       IN  /\ alarms' = updated
           /\ store' = Stringify(updated)
           /\ last' = [NoCall EXCEPT !.op = "snoozeEarly", !.id = id,
                                     !.time = now, !.before = store,
                                     !.loaded = MountAlarms,
                                     !.written = updated, !.saved = TRUE]
    /\ epi' = EpiReset(id)
    /\ UNCHANGED <<location, now, pc, snap, ploc, arg, soundObject, tray,
                   target, gpsEnabled, gpsVars, notifVars>>

\* Earliest revision, action 'stop' -> loadAlarms()
loadAlarmsOnStop(id) ==
    /\ pc["nr"] = "idle"
    /\ id \in tray
    /\ pc' = [pc EXCEPT !["nr"] = "reload"]
    /\ last' = NoCall
    /\ UNCHANGED <<store, alarms, location, now, snap, ploc, arg, soundObject,
                   tray, epi, target, gpsEnabled, gpsVars, notifVars>>

\* The earliest revision: its checkAlarms under the position watcher, the
\* background task and the creating saveAlarm, which are the same code in
\* that revision (part_000:912-919, 976-983, 1030-1052), and the two
\* actions of its notification listener.
NextEarly ==
    \/ Tick
    \/ \E p \in Procs, f \in StoreFaults : ComputeEarly(p, {f})
    \/ \E p \in Procs : ComputeEarly(p, {})
    \/ \E p \in Procs : Reload(p)
    \/ \E p \in Procs : SetAlarms(p)
    \/ Check("ui")
    \/ \E lat \in DevLats : Serial /\ WatchPosition(lat)
    \/ \E lat \in DevLats : Serial /\ BackgroundTask(lat)
    \/ \E lat \in ZoneLats, n \in Names, r \in Radii : Serial /\ saveAlarmNew(lat, n, r)
    \/ \E id \in AllIds : Serial /\ snoozeAlarmEarly(id)
    \/ \E id \in AllIds : Serial /\ loadAlarmsOnStop(id)

SpecEarly == Init /\ [][NextEarly]_vars

\* A collection found in the store with records no form of this build
\* writes: a latitude that is null or missing, a radius of zero or below.
StoredLats == {0, JsNull, JsUndefined}
StoredRadii == {DefaultRadius, 0, 0 - DefaultRadius}

StoredZone(k, lat, r) ==
    [id |-> NewId(TickMs * k), name |-> "Home",
     latitude |-> lat, longitude |-> Lon0, radius |-> r,
     active |-> TRUE, triggered |-> FALSE, snoozedUntil |-> 0]

StoredLists ==
    {<<StoredZone(1, l, r)>> : l \in StoredLats, r \in StoredRadii}
    \cup {<<StoredZone(1, l1, r1), StoredZone(2, l2, r2)>> :
              l1 \in StoredLats, r1 \in StoredRadii,
              l2 \in StoredLats, r2 \in StoredRadii}

\* Device positions at the reference parallel, 400 m and 600 m north of it.
StoredDevLats == {0, 4, 6}

\* The app mounted on such a store: loadAlarms has shown it.
InitStored ==
    /\ store \in {Stringify(zs) : zs \in StoredLists}
    /\ alarms = store.zs
    /\ location = NoLoc
    /\ now = TickMs
    /\ pc = [p \in Procs |-> "idle"]
    /\ snap = [p \in Procs |-> NullJson]
    /\ ploc = [p \in Procs |-> NoLoc]
    /\ arg = ""
    /\ soundObject = "unloaded"
    /\ tray = {}
    /\ epi = [id \in AllIds |-> 0]
    /\ ops = 0
    /\ target = ""
    /\ servicesEnabled = TRUE
    /\ hasStarted = TRUE
    /\ hasShownGpsWarning = FALSE
    /\ gpsEnabled = TRUE
    /\ poll = IdlePolls
    /\ warned = 0
    /\ displayed = {}
    /\ refresh = IdleRefresh
    /\ withdrawn = {}
    /\ last = NoCall

NextStored ==
    \/ \E p \in Procs : Compute(p, {})
    \/ \E p \in Procs : Reload(p)
    \/ \E p \in Procs : SetAlarms(p)
    \/ \E lat \in StoredDevLats : Serial /\ WatchPosition(lat)
    \/ \E lat \in StoredDevLats : Serial /\ BackgroundTask(lat)

\* checkAlarms on every such collection, from the watcher and the task.
SpecStored == InitStored /\ [][NextStored]_vars

----------------------------------------------------------------------------
(* Properties *)

IsCall == last.op = "checkAlarms"

Zones == 1..Len(last.loaded)

NotifiedAt(i) == \E k \in 1..Len(last.events) : last.events[k].idx = i
SoundedAt(i) == \E k \in 1..Len(last.sounds) : last.sounds[k] = i

\* Zone i of the loaded collection is left as it was: same record computed,
\* same record persisted, no sound and no notification for it.
Untouched(i) ==
    /\ ~NotifiedAt(i)
    /\ ~SoundedAt(i)
    /\ last.written[i] = last.loaded[i]
    /\ Len(store.zs) = Len(last.loaded)
    /\ store.zs[i] = last.loaded[i]

\* Zone i of the loaded collection went Ringing: triggered in the computed
\* and in the persisted record, with one sound start and one notification.
Rang(i) ==
    /\ NotifiedAt(i)
    /\ SoundedAt(i)
    /\ ~last.loaded[i].triggered
    /\ last.written[i].triggered
    /\ Len(store.zs) = Len(last.loaded)
    /\ store.zs[i].triggered

Distance(i) ==
    getDistance(last.pos, Lon0, last.loaded[i].latitude, last.loaded[i].longitude)

Within(i) == Distance(i) <= last.loaded[i].radius

SnoozedAt(i) == last.loaded[i].snoozedUntil > last.time

\* C1: a checkAlarms call leaves every zone that is already triggered
\* untouched: no sound, no notification, record unchanged, and triggered
\* stays true, whatever the position.
C1_TriggeredUntouched ==
    IsCall => \A i \in Zones : last.loaded[i].triggered => Untouched(i)

C1_Witness ==
    /\ IsCall
    /\ \E i \in Zones : last.loaded[i].triggered /\ last.loaded[i].active /\ Within(i)

\* C2: between two user resets of a zone, the checkAlarms calls of all the
\* callers together alert for that zone at most once (a zone being the one
\* record of the loaded collection that has the notified id).
C2_OneAlertPerEpisode ==
    IsCall =>
        \A k \in 1..Len(last.events) :
            LET id == last.events[k].alarmId
            IN  Cardinality({i \in Zones : last.loaded[i].id = id}) = 1 =>
                    epi[id] <= 1

\* C3: a write of toggleAlarm, saveAlarm or deleteAlarm for some other zone
\* never takes a persisted triggered=true away from a zone.
C3_NoLostTrigger ==
    [][last'.op \in {"toggle", "edit", "create", "delete"} =>
         \A i \in 1..Len(store.zs) :
             (store.zs[i].triggered /\ store.zs[i].id # last'.id) =>
                 \E j \in 1..Len(store'.zs) :
                     /\ store'.zs[j].id = store.zs[i].id
                     /\ store'.zs[j].triggered]_vars

\* C4: a checkAlarms call leaves every inactive zone untouched, whatever
\* the distance.
C4_InactiveUntouched ==
    IsCall => \A i \in Zones : ~last.loaded[i].active => Untouched(i)

C4_Witness ==
    /\ IsCall
    /\ \E i \in Zones : ~last.loaded[i].active /\ Within(i)

\* C5: an active, untriggered, unsnoozed zone rings in a checkAlarms call
\* exactly when its distance is at most its radius, and is untouched
\* otherwise.
C5_EntryDecision ==
    IsCall =>
        \A i \in Zones :
            (last.loaded[i].active /\ ~last.loaded[i].triggered /\ ~SnoozedAt(i)) =>
                IF Within(i) THEN Rang(i) ELSE Untouched(i)

C5_Witness ==
    /\ IsCall
    /\ \E i \in Zones : Distance(i) = last.loaded[i].radius /\ Rang(i)

Flipped == {i \in Zones : ~last.loaded[i].triggered /\ last.written[i].triggered}

\* C6: a checkAlarms call issues as many notifications as zones flipped
\* from untriggered to triggered, each with the id of a flipped zone.
C6_EventsMatchFlips ==
    IsCall =>
        /\ Len(last.events) = Cardinality(Flipped)
        /\ \A k \in 1..Len(last.events) :
               \E i \in Flipped : last.events[k].alarmId = last.loaded[i].id

C6_Witness == IsCall /\ Cardinality(Flipped) = 2 /\ Len(last.events) = 2

\* C7: a checkAlarms call leaves a snoozed zone (active, untriggered,
\* snoozedUntil after the evaluation time) untouched, even within its radius.
C7_SnoozedUntouched ==
    IsCall =>
        \A i \in Zones :
            (last.loaded[i].active /\ ~last.loaded[i].triggered /\ SnoozedAt(i)) =>
                Untouched(i)

C7_Witness ==
    /\ IsCall
    /\ \E i \in Zones :
           last.loaded[i].active /\ ~last.loaded[i].triggered /\ SnoozedAt(i) /\ Within(i)

\* C8: a zone that was snoozed rings in a checkAlarms call made after
\* snoozedUntil with the position within its radius.
C8_SnoozeExpires ==
    IsCall =>
        \A i \in Zones :
            (/\ last.loaded[i].active
             /\ ~last.loaded[i].triggered
             /\ last.loaded[i].snoozedUntil # 0
             /\ last.time > last.loaded[i].snoozedUntil
             /\ Within(i)) => Rang(i)

C8_Witness ==
    /\ IsCall
    /\ \E i \in Zones :
           /\ last.loaded[i].snoozedUntil # 0
           /\ last.time > last.loaded[i].snoozedUntil
           /\ Rang(i)

\* C9: the collection checkAlarms computes and writes has the length, ids
\* and order of the loaded one; a zone either is identical or differs only
\* in triggered = true with active still true.
C9_OutputFrame ==
    IsCall =>
        /\ Len(last.written) = Len(last.loaded)
        /\ \A i \in Zones :
               \/ last.written[i] = last.loaded[i]
               \/ /\ last.written[i] = [last.loaded[i] EXCEPT !.triggered = TRUE]
                  /\ last.written[i].active
        /\ last.saved => store = Stringify(last.written)

C9_Witness ==
    /\ IsCall
    /\ last.saved
    /\ \E i, j \in Zones : i \in Flipped /\ j \notin Flipped

\* C10: stopAlarmAndRefresh(id) on a stored collection persists it with the
\* zone id Off (active and triggered false) and every other zone as loaded,
\* in the same order.
C10_StopTurnsOff ==
    (last.op = "stop" /\ last.saved) =>
        /\ Len(store.zs) = Len(last.loaded)
        /\ \A i \in Zones :
               IF last.loaded[i].id = last.id
               THEN /\ ~store.zs[i].active
                    /\ ~store.zs[i].triggered
                    /\ store.zs[i] = [last.loaded[i] EXCEPT !.active = FALSE,
                                                            !.triggered = FALSE]
               ELSE store.zs[i] = last.loaded[i]

C10_Witness ==
    /\ last.op = "stop"
    /\ last.saved
    /\ \E i, j \in Zones :
           /\ last.loaded[i].id = last.id
           /\ last.loaded[i].triggered
           /\ last.loaded[j].id # last.id

\* C11: snoozeAlarm(id) on a stored collection persists the collection it
\* loaded from the store with the zone id untriggered, active and snoozed
\* until the time of the action plus 300000 ms, every other zone as loaded.
C11_SnoozeTransition ==
    (last.op = "snooze" /\ last.saved) =>
        /\ last.loaded = Parse(last.before)
        /\ last.time = now
        /\ Len(store.zs) = Len(last.loaded)
        /\ \A i \in Zones :
               IF last.loaded[i].id = last.id
               THEN /\ ~store.zs[i].triggered
                    /\ store.zs[i].active
                    /\ store.zs[i].snoozedUntil = last.time + 300000
                    /\ store.zs[i] = [last.loaded[i] EXCEPT
                                         !.triggered = FALSE, !.active = TRUE,
                                         !.snoozedUntil = last.time + 300000]
               ELSE store.zs[i] = last.loaded[i]

C11_Witness ==
    /\ last.op = "snooze"
    /\ last.saved
    /\ \E i, j \in Zones :
           /\ last.loaded[i].id = last.id
           /\ last.loaded[i].triggered
           /\ last.loaded[j].id # last.id
           /\ last.loaded[j].triggered

\* C12: toggleAlarm on a zone that is Off (active false) leaves it Armed:
\* persisted active, untriggered and with no snoozedUntil still ahead.
C12_ToggleOnArms ==
    last.op = "toggle" =>
        \A i \in Zones :
            (last.loaded[i].id = last.id /\ ~last.loaded[i].active) =>
                /\ store.zs[i].active
                /\ ~store.zs[i].triggered
                /\ ~(store.zs[i].snoozedUntil > last.time)

\* C13: saveAlarm without editingId appends one zone at the end of the
\* stored collection, Armed (active, untriggered, snoozedUntil 0), with the
\* selected coordinate and the radius and name of the form, and leaves the
\* zones stored before it as they were.
C13_CreationState ==
    last.op = "create" =>
        LET old == Parse(last.before)
        IN  /\ Len(store.zs) = Len(old) + 1
            /\ \A i \in 1..Len(old) : store.zs[i] = old[i]
            /\ LET z == store.zs[Len(store.zs)]
               IN  /\ z.active
                   /\ ~z.triggered
                   /\ z.snoozedUntil = 0
                   /\ z.latitude = last.pos
                   /\ z.longitude = Lon0
                   /\ z.radius = last.radius
                   /\ z.name = last.name

\* C14: no two zones of the stored collection have the same id.
C14_UniqueIds ==
    \A i, j \in 1..Len(store.zs) : i # j => store.zs[i].id # store.zs[j].id

\* C15: an edit, a toggle, a snooze, a stop or a checkAlarms call that
\* writes the store leaves the stored zones the same in number and order,
\* each with the id, latitude and longitude it had before.
C15_StableIdentity ==
    (last.op \in {"edit", "toggle", "snooze", "stop", "checkAlarms"} /\ last.saved) =>
        LET old == Parse(last.before)
        IN  /\ Len(store.zs) = Len(old)
            /\ \A i \in 1..Len(old) :
                   /\ store.zs[i].id = old[i].id
                   /\ store.zs[i].latitude = old[i].latitude
                   /\ store.zs[i].longitude = old[i].longitude

C15_Witness ==
    /\ last.op = "snooze"
    /\ last.saved
    /\ Len(store.zs) = 2
    /\ \E i \in 1..2 : store.zs[i].id = last.id /\ store.zs[i] # last.loaded[i]

\* C16: a checkAlarms call writes the store exactly when it flipped some
\* zone to triggered, and its result is true exactly when it wrote: with a
\* flip the store holds the computed list and the caller goes on to refresh,
\* without one the store is as it was and the result is false.
C16_WriteOnlyOnTrigger ==
    IsCall =>
        /\ last.saved <=> Flipped # {}
        /\ last.ret <=> last.saved
        /\ IF Flipped # {}
           THEN store = Stringify(last.written) /\ store # last.before
           ELSE store = last.before
        /\ last.proc # "bg" => (pc[last.proc] = "reload" <=> last.ret)
        /\ ~last.threw

C16_Witness ==
    /\ IsCall
    /\ Flipped = {}
    /\ ~last.ret
    /\ store = last.before
    /\ \E i \in Zones : last.loaded[i].triggered /\ Within(i)

StoreFailed == IsCall /\ last.fail \cap {"load", "save"} # {}

\* C17: a checkAlarms call in which the getItem or the setItem fails leaves
\* the store as it was, returns false and does not reject, and its caller
\* is done, so that the next cycle begins with its own getItem.
C17_StoreFailureAbandons ==
    StoreFailed =>
        /\ store = last.before
        /\ ~last.saved
        /\ ~last.ret
        /\ ~last.threw
        /\ pc[last.proc] = "idle"

\* C18: between two user resets of a zone, the checkAlarms calls deliver the
\* alert of that zone (sound start and notification) at most once, also
\* when the setItem of a call fails after the zone was found within its
\* radius.
C18_OneAlertDespiteSaveFailure ==
    IsCall =>
        \A i \in Zones :
            (/\ NotifiedAt(i)
             /\ SoundedAt(i)
             /\ last.fail \subseteq {"save"}
             /\ Cardinality({j \in Zones : last.loaded[j].id = last.loaded[i].id}) = 1)
                => epi[last.loaded[i].id] <= 1

SinkFailed == IsCall /\ last.fail \cap {"sound", "notify"} # {}

\* C19: a checkAlarms call in which playAlarmSound or the notification fails
\* still persists triggered = true for every zone it found entered and
\* returns true; and no call, whatever failed before, notifies or sounds
\* for a zone it loads as triggered.
C19_SinkFailureStillTriggers ==
    /\ SinkFailed =>
           \A i \in Zones :
               (/\ last.loaded[i].active
                /\ ~last.loaded[i].triggered
                /\ ~SnoozedAt(i)
                /\ Within(i)) =>
                   /\ last.written[i].triggered
                   /\ last.saved
                   /\ last.ret
                   /\ Len(store.zs) = Len(last.loaded)
                   /\ store.zs[i].triggered
    /\ IsCall =>
           \A i \in Zones :
               last.loaded[i].triggered => ~NotifiedAt(i) /\ ~SoundedAt(i)

C19_Witness ==
    /\ SinkFailed
    /\ \E i \in Zones :
           /\ ~last.loaded[i].triggered
           /\ Within(i)
           /\ store.zs[i].triggered
           /\ last.loaded[i].id \notin tray

RingingOthers(zs, id) ==
    {i \in 1..Len(zs) : zs[i].id # id /\ zs[i].active /\ zs[i].triggered}

\* C20: when the user stops one zone from its notification (the Stop action
\* or a tap) while the sound plays and another zone is still Ringing, the
\* sound keeps playing.
C20_StopKeepsSoundForOthers ==
    (/\ last.op \in {"onStop", "onTap"}
     /\ last.sound = "playing"
     /\ RingingOthers(store.zs, last.id) # {}) => soundObject = "playing"

\* C23: every stored zone record with triggered = true has active = true,
\* under every interleaving of the handlers.
C23_RingingImpliesActive ==
    \A i \in 1..Len(store.zs) : store.zs[i].triggered => store.zs[i].active

C23_Witness ==
    /\ last.op \in {"toggle", "stop"}
    /\ \E i \in 1..Len(last.before.zs) :
           /\ last.before.zs[i].id = last.id
           /\ last.before.zs[i].triggered
           /\ last.before.zs[i].active
           /\ ~store.zs[i].active
           /\ ~store.zs[i].triggered

Quiescent == \A p \in Procs : pc[p] = "idle"

\* C25: whenever no handler is in flight, the in-memory alarms list equals
\* the stored collection.
C25_ListMirrorsStore ==
    Quiescent => alarms = store.zs

Invalid(z) == z.latitude \in {JsNull, JsUndefined} \/ z.radius <= 0

C24_SoundOnlyWhileRinging ==
    (Quiescent /\ soundObject = "playing")
        => \E i \in 1..Len(store.zs) : store.zs[i].active /\ store.zs[i].triggered

\* C28: saveAlarm and toggleAlarm go on to checkAlarms exactly when a position
\* is known, the check uses that position, and the zone the handler created,
\* re-armed or toggled on is Ringing after the check when the device is
\* within its radius.
C28_InstantCheck ==
    /\ last.op \in {"create", "edit", "toggle"} =>
           /\ pc["ui"] = (IF location # NoLoc THEN "check" ELSE "idle")
           /\ target = (IF location # NoLoc THEN last.id ELSE "")
    /\ (IsCall /\ last.proc = "ui") =>
           /\ last.pos = location
           /\ \A i \in 1..Len(last.before.zs) :
                  (/\ last.before.zs[i].id = last.id
                   /\ last.before.zs[i].active
                   /\ LessEq(getDistance(last.pos, Lon0,
                                         last.before.zs[i].latitude,
                                         last.before.zs[i].longitude),
                             last.before.zs[i].radius))
                      => store.zs[i].triggered

ArmedInStore(id) ==
    \E i \in 1..Len(store.zs) :
        /\ store.zs[i].id = id
        /\ store.zs[i].active
        /\ ~store.zs[i].triggered
        /\ store.zs[i].snoozedUntil <= now

AlertedNow(id) ==
    /\ IsCall
    /\ \E k \in 1..Len(last.events) : last.events[k].alarmId = id
    /\ \E i \in 1..Len(store.zs) :
           store.zs[i].id = id /\ store.zs[i].active /\ store.zs[i].triggered

\* C27: with the device staying inside, the store not failing and position
\* updates continuing, a zone that is Armed eventually becomes Ringing with
\* its alert emitted, whatever the user does to other zones meanwhile.
C27_EventuallyRings == ArmedInStore(Watched) ~> AlertedNow(Watched)

\* C29: the GPS Disabled notification is issued at most once in a continuous
\* period with the location services off, and when a poll has completed the
\* background location updates are running exactly if it saw the services on.
C29_WarnOncePerOutage ==
    /\ warned <= 1
    /\ last.op = "poll" => (hasStarted <=> last.ret)

\* C30: in the earliest revision a snooze from the notification leaves every
\* stored zone in the persisted collection, changing only the snoozed one
\* (triggered off, active on, snoozedUntil five minutes ahead).
C30_SnoozeKeepsCollection ==
    last.op = "snoozeEarly" =>
        /\ Len(store.zs) = Len(last.before.zs)
        /\ \A i \in 1..Len(last.before.zs) :
               store.zs[i] = SnoozeOne(last.before.zs[i], last.id, last.time)

\* C21: once a stop or a toggle-off of a ringing zone has completed and no
\* tick of the refresh timer is in flight, no notification alarm-<id> of that
\* zone is on display.
C21_StopWithdrawsAlert ==
    refresh.at = "idle" => withdrawn \cap displayed = {}

Reasserted(z) == z.active /\ z.triggered

\* C26: a tick of the refresh timer re-issues a notification for exactly the
\* zones that are active and triggered in the collection it loaded, each with
\* isRefresh set and no sound; a delivery made by checkAlarms is not a refresh
\* and plays the sound.
C26_SilentReassertion ==
    /\ last.op = "refresh" =>
           /\ Len(last.events) = Len(SelectSeq(last.loaded, Reasserted))
           /\ \A k \in 1..Len(last.events) :
                  /\ last.events[k].alarmId =
                         SelectSeq(last.loaded, Reasserted)[k].id
                  /\ last.events[k].isRefresh
                  /\ ~last.events[k].shouldPlaySound
                  /\ ~last.events[k].vibrate
    /\ IsCall =>
           \A k \in 1..Len(last.events) :
               /\ ~last.events[k].isRefresh
               /\ last.events[k].shouldPlaySound

C26_Witness ==
    /\ last.op = "refresh"
    /\ Len(last.events) = 1
    /\ last.events[1].isRefresh
    /\ \E i \in 1..Len(last.loaded) : ~Reasserted(last.loaded[i])


====
